---- MODULE Spec2Model ----
(***************************************************************************)
(* A model of My_Shell.c: the read-a-line loop, execute_pipeline, the      *)
(* single-command fork site, handle_redirection and parse_args, together   *)
(* with the operating-system objects they act on (descriptor tables,       *)
(* pipes, child processes, files).                                         *)
(*                                                                         *)
(* A line is a sequence of symbols.  The one-character symbols " ", "|",   *)
(* "<", ">", "&" stand for themselves; every other symbol stands for a run *)
(* of ordinary characters.  A token is a non-empty sequence of symbols, so *)
(* that <<">", ">">> is the token ">>".  The empty sequence is the null    *)
(* pointer.                                                                 *)
(***************************************************************************)
EXTENDS Integers, Sequences, FiniteSets, TLC

\* ---------------------------------------------------------------- bounds
MaxLines == 2
MaxStages == 10
PipeCap == 1
MaxFds == 14

\* ------------------------------------------------------ program constants
MAX_ARGS == 128
CommandsSlots == 10
STDIN_FILENO == 0
STDOUT_FILENO == 1

NULL == <<>>

\* ------------------------------------------------------------ environment
\* Programs found on PATH, and what each does once running: the number of
\* units it writes to its stdout and whether it reads its stdin to
\* end-of-stream before it writes and exits.
Executables == {<<"ls">>, <<"wc">>, <<"seq">>, <<"sleep">>}

ProgWrites(prog) ==
  IF prog = <<"ls">> THEN 1
  ELSE IF prog = <<"wc">> THEN 1
  ELSE IF prog = <<"seq">> THEN PipeCap + 1
  ELSE 0

ProgReads(prog) == prog = <<"wc">>

\* Paths that cannot be opened in any mode (a missing parent directory).
Unopenable == {<<"nodir">>}
\* Files that exist when the shell starts.
InitFiles == {<<"f">>}

\* ----------------------------------------------------------------- strtok
\* The tokens successive strtok calls return on s with delimiter set D:
\* the maximal runs of non-delimiter symbols, left to right.
RECURSIVE strtok_run(_, _, _)
strtok_run(s, D, cur) ==
  IF s = <<>> THEN (IF cur = <<>> THEN <<>> ELSE <<cur>>)
  ELSE IF Head(s) \in D
       THEN (IF cur = <<>> THEN strtok_run(Tail(s), D, <<>>)
             ELSE <<cur>> \o strtok_run(Tail(s), D, <<>>))
       ELSE strtok_run(Tail(s), D, Append(cur, Head(s)))

strtok(s, D) == strtok_run(s, D, <<>>)

\* parse_args: the args array after the call, a sequence of tokens ended by
\* NULL.  With MAX_ARGS or more tokens the loop stops with no terminator
\* stored.  A NULL line continues the exhausted tokenization and yields
\* no token.
parse_args(line) ==
  LET toks == strtok(line, {" "})
  IN IF Len(toks) < MAX_ARGS THEN Append(toks, NULL)
     ELSE SubSeq(toks, 1, MAX_ARGS)

\* The commands array and num_cmds after the two strtok statements of
\* execute_pipeline: every stage, then the NULL that ended the loop; the
\* first slot is counted even when it is NULL.
split_commands(line) ==
  LET toks == strtok(line, {"|"})
  IN IF toks = <<>> THEN <<NULL, NULL>> ELSE Append(toks, NULL)

\* strchr(line, '|')
has_pipe(line) == \E k \in 1..Len(line) : line[k] = "|"

\* ------------------------------------------------------ descriptor tables
\* A descriptor table is a function from the open descriptor numbers to the
\* open file each refers to.
Tty == [k |-> "tty", p |-> 0, n |-> NULL]
PipeR(id) == [k |-> "pr", p |-> id, n |-> NULL]
PipeW(id) == [k |-> "pw", p |-> id, n |-> NULL]
FileObj(mode, name) == [k |-> mode, p |-> 0, n |-> name]

InitFds == [x \in {0, 1, 2} |-> Tty]

lowest_free(f) ==
  CHOOSE x \in 0..Cardinality(DOMAIN f) :
    x \notin DOMAIN f /\ \A y \in 0..(x - 1) : y \in DOMAIN f

dup2(f, old, new) ==
  IF old \notin DOMAIN f THEN f
  ELSE [x \in DOMAIN f \cup {new} |-> IF x = new THEN f[old] ELSE f[x]]

close(f, fd) == [x \in DOMAIN f \ {fd} |-> f[x]]

\* open(path, flags): whether it succeeds given the files that exist.
open_ok(path, mode, files) ==
  /\ path # NULL
  /\ path \notin Unopenable
  /\ (mode = "rd" => path \in files)

\* The descriptor table after fd = open(..); dup2(fd, target); close(fd).
\* A failed open gives fd = -1, on which dup2 and close do nothing.
redirect(f, path, mode, target, files) ==
  IF open_ok(path, mode, files)
  THEN LET fd == lowest_free(f)
           g == [x \in DOMAIN f \cup {fd} |->
                   IF x = fd THEN FileObj(mode, path) ELSE f[x]]
       IN close(dup2(g, fd, target), fd)
  ELSE f

\* ----------------------------------------------------- handle_redirection
\* The state the loop of handle_redirection works on: the args array, the
\* descriptor table of the process, the files that exist and the
\* diagnostics written to stderr.
is_redir(tok) == tok \in {<<">">>, <<">", ">">>, <<"<">>}

arg_at(a, i) == IF i <= Len(a) THEN a[i] ELSE NULL

\* One iteration of the for loop, at a position whose entry is not NULL.
redir_body(r, i) ==
  LET tok == r.a[i]
      path == arg_at(r.a, i + 1)
  IN IF tok = <<">">>
     THEN [a |-> [r.a EXCEPT ![i] = NULL],
           fds |-> redirect(r.fds, path, "wr", STDOUT_FILENO, r.files),
           files |-> IF open_ok(path, "wr", r.files)
                     THEN r.files \cup {path} ELSE r.files,
           diag |-> r.diag]
     ELSE IF tok = <<">", ">">>
     THEN [a |-> [r.a EXCEPT ![i] = NULL],
           fds |-> redirect(r.fds, path, "ap", STDOUT_FILENO, r.files),
           files |-> IF open_ok(path, "ap", r.files)
                     THEN r.files \cup {path} ELSE r.files,
           diag |-> r.diag]
     ELSE IF tok = <<"<">>
     THEN [a |-> [r.a EXCEPT ![i] = NULL],
           fds |-> redirect(r.fds, path, "rd", STDIN_FILENO, r.files),
           files |-> r.files,
           diag |-> IF open_ok(path, "rd", r.files)
                    THEN r.diag ELSE Append(r.diag, "open")]
     ELSE r

\* The loop: i advances by one after every iteration and the loop ends at
\* the first NULL entry it meets at position i.
RECURSIVE redir_loop(_, _)
redir_loop(r, i) ==
  IF arg_at(r.a, i) = NULL THEN r
  ELSE redir_loop(redir_body(r, i), i + 1)

\* A loop that stops at the first entry it has set to NULL.
RECURSIVE redir_loop_first(_, _)
redir_loop_first(r, i) ==
  IF arg_at(r.a, i) = NULL THEN r
  ELSE IF is_redir(r.a[i]) THEN redir_body(r, i)
  ELSE redir_loop_first(r, i + 1)

handle_redirection_first(r) == redir_loop_first(r, 1)

handle_redirection(r) == redir_loop(r, 1)

\* The argument vector execvp reads: the entries before the first NULL.
RECURSIVE argv_of(_)
argv_of(a) ==
  IF a = <<>> \/ Head(a) = NULL THEN <<>>
  ELSE <<Head(a)>> \o argv_of(Tail(a))

\* execvp(args[0], args).  With args[0] NULL the call is undefined: it
\* either returns with an error or the process dies of a signal.
exec_outcomes(a) ==
  IF arg_at(a, 1) = NULL THEN {"fail", "segv"}
  ELSE IF a[1] \in Executables THEN {"ok"}
  ELSE {"fail"}

\* ---------------------------------------------------- variable expansion
is_alnum(sym) == sym \notin {" ", "|", "<", ">", "&", "$", "="}

RECURSIVE var_name(_)
var_name(s) ==
  IF s = <<>> \/ ~is_alnum(Head(s)) THEN <<>>
  ELSE <<Head(s)>> \o var_name(Tail(s))

RECURSIVE expand_from(_, _, _)
expand_from(s, e, buffer) ==
  IF s = <<>> THEN buffer
  ELSE IF Head(s) = "$"
       THEN LET var == var_name(Tail(s))
                rest == SubSeq(s, Len(var) + 2, Len(s))
                val == IF var \in DOMAIN e THEN e[var] ELSE <<>>
            IN expand_from(rest, e, buffer \o val)
       ELSE expand_from(Tail(s), e, Append(buffer, Head(s)))

expand_variables(l, e) == expand_from(l, e, <<>>)

\* ------------------------------------------------------------- built-ins
\* "none" for an external command, otherwise what handle_builtin does.
builtin_kind(a) ==
  IF arg_at(a, 1) = NULL THEN "empty"
  ELSE IF a[1] = <<"exit">> THEN "exit"
  ELSE IF a[1] = <<"cd">> THEN "cd"
  ELSE IF a[1] = <<"history">> THEN "history"
  ELSE IF a[1] = <<"export">> THEN "export"
  ELSE "none"

\* The environment after export: args[1] is cut at "=" into key and value,
\* and set only when both are present.
export_env(a, e) ==
  IF arg_at(a, 2) = NULL THEN e
  ELSE LET kv == strtok(a[2], {"="})
       IN IF Len(kv) < 2 THEN e
          ELSE [v \in DOMAIN e \cup {kv[1]} |->
                  IF v = kv[1] THEN kv[2] ELSE e[v]]

\* The number of tokens in args (the while loop counting to the first NULL)
count_args(a) == Len(argv_of(a))

\* background = 1 exactly when the last token is "&"
is_background(a) ==
  count_args(a) > 0 /\ a[count_args(a)] = <<"&">>

strip_background(a) ==
  IF is_background(a) THEN [a EXCEPT ![count_args(a)] = NULL] ELSE a

\* ------------------------------------------------------------ input lines
\* sp joins tokens with single spaces; long_line(n) is n stages "ls"
\* separated by "|".
RECURSIVE sp(_)
sp(ws) ==
  IF ws = <<>> THEN <<>>
  ELSE IF Len(ws) = 1 THEN Head(ws)
  ELSE Head(ws) \o <<" ">> \o sp(Tail(ws))

RECURSIVE long_line(_)
long_line(n) == IF n <= 1 THEN <<"ls">> ELSE <<"ls", "|">> \o long_line(n - 1)

Lines ==
  { <<>>,
    <<"ls">>,
    <<"exit">>,
    <<"nosuch">>,
    <<"nosuch", " ", "&">>,
    <<"export", " ", "x", "=", "wc">>,
    <<"ls", " ", "|", " ", "$", "x">>,
    <<"ls", " ", "|", " ", "wc">>,
    <<"ls", "|">>,
    <<"seq", "|", "wc">>,
    <<"ls", " ", "|", " ", "wc", " ", "&">>,
    <<"nosuch", "|", "nosuch">>,
    <<"ls", " ", "|", " ", "wc", " ", "<", " ", "f", " ", ">", " ", "g">>,
    <<"ls", " ", ">", " ", "f", " ", ">", ">", " ", "g">>,
    <<"wc", " ", "<", " ", "g", " ", "<", " ", "f">>,
    <<"wc", " ", "<", " ", "f", " ", "<", " ", "g", " ", ">", " ", "nodir">>,
    <<"ls", " ", ">", " ", "g", " ", "x", " ", ">">>,
    <<">", " ", "g">>,
    long_line(MaxStages) }

\* ------------------------------------------------------------------ state
VARIABLES
  pc,        \* where the shell process is: "read", "pl_loop", "pl_wait",
             \* "pl_last", "pl_last_wait", "fg_wait", "terminated"
  why,       \* how the shell process ended: "exit", "eof", "abort"
  line,      \* the line buffer of shell_loop, after expansion
  lineno,    \* the number of lines read so far
  env,       \* the environment variables set by export
  commands,  \* execute_pipeline: the commands array up to num_cmds
  i,         \* execute_pipeline: the loop counter
  in_fd,     \* execute_pipeline: in_fd
  pipefd,    \* execute_pipeline: pipefd[0], pipefd[1] of this iteration
  pid,       \* shell_loop: the pid the foreground waitpid waits for
  shfds,     \* the descriptor table of the shell process
  children,  \* the child processes forked and not yet forgotten
  pipes,     \* each pipe: the units buffered in it (buf) and the line
             \* and loop iteration whose pipe() call created it (line,
             \* stage)
  files,     \* the files that exist
  fails      \* the pipe() and fork() calls that have failed since the
             \* current line was read

vars == <<pc, why, line, lineno, env, commands, i, in_fd, pipefd, pid,
          shfds, children, pipes, files, fails>>

num_cmds == Len(commands)

Init ==
  /\ pc = "read"
  /\ why = "none"
  /\ line = <<>>
  /\ lineno = 0
  /\ env = <<>>
  /\ commands = <<>>
  /\ i = 0
  /\ in_fd = 0
  /\ pipefd = <<0, 0>>
  /\ pid = 0
  /\ shfds = InitFds
  /\ children = <<>>
  /\ pipes = <<>>
  /\ files = InitFiles
  /\ fails = {}

\* -------------------------------------------------------------- processes
Live(c) == c.st \in {"forked", "running"}

\* fork(): the child is a copy of the shell: its descriptor table fds and
\* the locals it will use (in_fd, pipefd, the stage text or the args array).
new_pid(ch) ==
  CHOOSE x \in 1..(Cardinality(DOMAIN ch) + 1) : x \notin DOMAIN ch

fork_child(site, stage, ln, fds, infd, pfd, text, a, bg) ==
  [st |-> "forked", site |-> site, stage |-> stage, line |-> ln,
   fds |-> fds, in_fd |-> infd, pipefd |-> pfd, text |-> text,
   args |-> a, xargs |-> <<>>, argv |-> <<>>, toWrite |-> 0, reads |-> FALSE,
   status |-> 0, diag |-> <<>>, bg |-> bg, term |-> 0]

add_child(ch, c) ==
  [x \in DOMAIN ch \cup {new_pid(ch)} |->
     IF x = new_pid(ch) THEN c ELSE ch[x]]

\* The children the shell can still wait for, and those already terminated.
Zombies == {x \in DOMAIN children : children[x].st = "zombie"}
Waitable == {x \in DOMAIN children : Live(children[x])}

\* Children already reaped are forgotten when the next line is read.
forget_reaped(ch) ==
  [x \in {y \in DOMAIN ch : ch[y].st # "reaped"} |-> ch[x]]

ShellLocals == <<commands, i, in_fd, pipefd, pid>>

\* wait(NULL): reaps any one terminated child; fails at once when there is
\* no child at all; blocks otherwise.
WaitAny(ch) ==
  \/ \E z \in Zombies : ch = [children EXCEPT ![z].st = "reaped"]
  \/ /\ Zombies = {}
     /\ Waitable = {}
     /\ ch = children

\* pipe() and fork() fail for lack of resources.  pipe fails when fewer
\* than two descriptors are free in the table f.  The system lets the shell
\* have one child; while it has a child, running or not yet reaped, a fork
\* can fail.
pipe_outcome(f) ==
  IF Cardinality(DOMAIN f) + 2 > MaxFds THEN "fail" ELSE "ok"

fork_outcomes(ch) ==
  IF \E p \in DOMAIN ch : ch[p].st # "reaped" THEN {"ok", "fail"}
  ELSE {"ok"}

failed(fl, call) == fl \cup {call}

\* pipefd is an uninitialized array of the loop body, and a failed pipe()
\* stores nothing into it: what it then holds is indeterminate.  In the
\* first iteration that is whatever the stack held (zeroes, the numbers
\* of open descriptors, or no descriptor at all); in a later iteration the
\* same storage still holds the values the iteration before left there.
indeterminate_pipefd ==
  IF i = 0 THEN {<<0, 0>>, <<0, 1>>, <<-1, -1>>} ELSE {pipefd}

\* waitpid that takes any terminated child, as wait(NULL) does.
waitpid_any(w) == Zombies

\* The children waitpid(w, NULL, 0) can reap: the child w, or any child
\* when w is -1.
waitpid_set(w) == IF w = -1 THEN Zombies ELSE Zombies \cap {w}

\* ------------------------------------------------------------- shell_loop
\* fgets returns NULL: the loop ends and main returns 0.
ReadEOF ==
  /\ pc = "read"
  /\ pc' = "terminated"
  /\ why' = "eof"
  /\ shfds' = <<>>
  /\ UNCHANGED <<line, lineno, env, ShellLocals, children, pipes, files>>
  /\ UNCHANGED fails

\* An empty line: continue.  (fgets reads descriptor 0; once that is
\* closed it returns NULL, which is ReadEOF.)
ReadEmpty ==
  /\ pc = "read"
  /\ STDIN_FILENO \in DOMAIN shfds
  /\ lineno < MaxLines
  /\ lineno' = lineno + 1
  /\ line' = <<>>
  /\ children' = forget_reaped(children)
  /\ UNCHANGED <<pc, why, env, ShellLocals, shfds, pipes, files>>
  /\ fails' = {}

\* What writing past the end of the commands array can do to the shell.
overflow_outcomes(cmds) ==
  IF Len(cmds) > CommandsSlots THEN {"continue", "abort"} ELSE {"continue"}

\* A line with '|': execute_pipeline up to its for loop.
ReadPipeline(l) ==
  /\ pc = "read"
  /\ STDIN_FILENO \in DOMAIN shfds
  /\ lineno < MaxLines
  /\ l # <<>>
  /\ LET x == expand_variables(l, env)
     IN /\ has_pipe(x)
        /\ line' = x
        /\ \E o \in overflow_outcomes(split_commands(x)) :
             IF o = "abort"
             THEN /\ pc' = "terminated"
                  /\ why' = "abort"
                  /\ shfds' = <<>>
                  /\ UNCHANGED commands
             ELSE /\ pc' = "pl_loop"
                  /\ commands' = split_commands(x)
                  /\ UNCHANGED <<why, shfds>>
  /\ lineno' = lineno + 1
  /\ i' = 0
  /\ in_fd' = 0
  /\ children' = forget_reaped(children)
  /\ UNCHANGED <<env, pipefd, pid, pipes, files>>
  /\ fails' = {}

\* A line without '|' that handle_builtin serves (or exits on).
ReadBuiltin(l) ==
  /\ pc = "read"
  /\ STDIN_FILENO \in DOMAIN shfds
  /\ lineno < MaxLines
  /\ l # <<>>
  /\ LET x == expand_variables(l, env)
         a == strip_background(parse_args(x))
     IN /\ ~has_pipe(x)
        /\ builtin_kind(a) # "none"
        /\ line' = x
        /\ IF builtin_kind(a) = "exit"
           THEN pc' = "terminated" /\ why' = "exit" /\ shfds' = <<>>
           ELSE UNCHANGED <<pc, why, shfds>>
        /\ env' = IF builtin_kind(a) = "export" THEN export_env(a, env)
                  ELSE env
  /\ lineno' = lineno + 1
  /\ children' = forget_reaped(children)
  /\ UNCHANGED <<ShellLocals, pipes, files>>
  /\ fails' = {}

\* A line without '|' that runs an external command: fork, and waitpid
\* unless the line ended in "&".  A failed fork leaves pid = -1, which is
\* neither 0 nor tested.
ReadCommand(l) ==
  /\ pc = "read"
  /\ STDIN_FILENO \in DOMAIN shfds
  /\ lineno < MaxLines
  /\ l # <<>>
  /\ LET x == expand_variables(l, env)
         a == parse_args(x)
         kept == forget_reaped(children)
     IN /\ ~has_pipe(x)
        /\ builtin_kind(strip_background(a)) = "none"
        /\ line' = x
        /\ \E fo \in fork_outcomes(children) :
             /\ children' =
                  IF fo = "ok"
                  THEN add_child(kept,
                         fork_child("single", 0, lineno + 1, shfds, in_fd,
                                    pipefd, NULL, strip_background(a),
                                    is_background(a)))
                  ELSE kept
             /\ fails' = IF fo = "ok" THEN {} ELSE failed({}, "fork")
             /\ IF is_background(a)
                THEN UNCHANGED <<pc, pid>>
                ELSE /\ pc' = "fg_wait"
                     /\ pid' = IF fo = "ok" THEN new_pid(kept) ELSE -1
  /\ lineno' = lineno + 1
  /\ UNCHANGED <<why, env, commands, i, in_fd, pipefd, shfds, pipes, files>>

\* waitpid(pid, NULL, 0) returns: with the child reaped, or at once when
\* pid is -1 and there is no child at all.
FgWait ==
  /\ pc = "fg_wait"
  /\ \/ \E z \in waitpid_set(pid) :
          children' = [children EXCEPT ![z].st = "reaped"]
     \/ /\ pid = -1
        /\ Zombies = {}
        /\ Waitable = {}
        /\ children' = children
  /\ pc' = "read"
  /\ pid' = 0
  /\ UNCHANGED <<why, line, lineno, env, commands, i, in_fd, pipefd,
                 shfds, pipes, files>>
  /\ UNCHANGED fails

\* ------------------------------------------------------- execute_pipeline
new_pipe == CHOOSE x \in 1..(Cardinality(DOMAIN pipes) + 1) :
              x \notin DOMAIN pipes

\* pipe(pipefd): the two lowest free descriptors, read end first.
pipe_fds(f, id) ==
  LET r == lowest_free(f)
      f1 == [x \in DOMAIN f \cup {r} |-> IF x = r THEN PipeR(id) ELSE f[x]]
      w == lowest_free(f1)
  IN [fds |-> [x \in DOMAIN f1 \cup {w} |->
                 IF x = w THEN PipeW(id) ELSE f1[x]],
      pipefd |-> <<r, w>>]

\* One iteration of the for loop up to its wait: pipe(pipefd) and fork().
PlStage ==
  /\ pc = "pl_loop"
  /\ \E g \in indeterminate_pipefd, fo \in fork_outcomes(children) :
         LET po == pipe_outcome(shfds)
             pf == IF po = "ok" THEN pipe_fds(shfds, new_pipe)
                   ELSE [fds |-> shfds, pipefd |-> g]
             f1 == IF po = "ok" THEN fails
                   ELSE failed(fails, "pipe")
         IN /\ shfds' = pf.fds
            /\ pipefd' = pf.pipefd
            /\ pipes' =
                 IF po = "ok"
                 THEN [x \in DOMAIN pipes \cup {new_pipe} |->
                         IF x = new_pipe
                         THEN [buf |-> 0, line |-> lineno, stage |-> i]
                         ELSE pipes[x]]
                 ELSE pipes
            /\ children' =
                 IF fo = "ok"
                 THEN add_child(children,
                        fork_child("stage", i, lineno, pf.fds, in_fd,
                                   pf.pipefd, commands[i + 1], <<NULL>>,
                                   FALSE))
                 ELSE children
            /\ fails' = IF fo = "ok" THEN f1
                        ELSE failed(f1, "fork")
  /\ pc' = "pl_wait"
  /\ UNCHANGED <<why, line, lineno, env, commands, i, in_fd, pid, files>>

\* A parent that keeps the write end open after the wait.
parent_close_none(f, pfd) == f

\* close(pipefd[1]) in the parent.
parent_close(f, pfd) == close(f, pfd[2])

\* Where the for loop goes after an iteration.
loop_next(k, n) == IF k < n - 1 THEN "pl_loop" ELSE "pl_last"

\* The rest of the iteration: wait(NULL) returns, close(pipefd[1]),
\* in_fd = pipefd[0], i++ and the loop test.
PlWait ==
  /\ pc = "pl_wait"
  /\ WaitAny(children')
  /\ shfds' = parent_close(shfds, pipefd)
  /\ in_fd' = pipefd[1]
  /\ i' = i + 1
  /\ pc' = loop_next(i + 1, num_cmds)
  /\ UNCHANGED <<why, line, lineno, env, commands, pipefd, pid, pipes, files>>
  /\ UNCHANGED fails

\* "Last command": parse_args(commands[num_cmds-2]) and fork().
PlLast ==
  /\ pc = "pl_last"
  /\ \E fo \in fork_outcomes(children) :
       /\ children' =
            IF fo = "ok"
            THEN add_child(children,
                   fork_child("last", num_cmds - 2, lineno, shfds, in_fd,
                              pipefd, NULL,
                              parse_args(commands[num_cmds - 1]), FALSE))
            ELSE children
       /\ fails' = IF fo = "ok" THEN fails
                   ELSE failed(fails, "fork")
  /\ pc' = "pl_last_wait"
  /\ UNCHANGED <<why, line, lineno, env, ShellLocals, shfds, pipes, files>>

\* The final wait(NULL) returns and execute_pipeline returns.
PlLastWait ==
  /\ pc = "pl_last_wait"
  /\ WaitAny(children')
  /\ pc' = "read"
  /\ commands' = <<>>
  /\ i' = 0
  /\ in_fd' = 0
  /\ pipefd' = <<0, 0>>
  /\ UNCHANGED <<why, line, lineno, env, pid, shfds, pipes, files>>
  /\ UNCHANGED fails

\* -------------------------------------------------------- child processes
\* What the child does between fork and handle_redirection: the dup2 and
\* close calls of its fork site.
child_wiring(c) ==
  IF c.site = "stage"
  THEN close(dup2(dup2(c.fds, c.in_fd, 0), c.pipefd[2], 1), c.pipefd[1])
  ELSE IF c.site = "last" THEN dup2(c.fds, c.in_fd, 0)
  ELSE c.fds

\* The args array the child hands to handle_redirection: a pipeline stage
\* parses its own stage text, the other two sites inherit the parsed array.
child_args(c) == IF c.site = "stage" THEN parse_args(c.text) ELSE c.args

child_setup(c, fl) ==
  handle_redirection([a |-> child_args(c), fds |-> child_wiring(c),
                      files |-> fl, diag |-> <<>>])

\* A child whose failed exec is not followed by exit continues with the
\* code of the shell.
child_exec_failed_no_exit(c) ==
  [c EXCEPT !.st = "read", !.diag = Append(@, "exec")]

\* execvp returned: perror("exec"); exit(1).
child_exec_failed(c) ==
  [c EXCEPT !.st = "zombie", !.status = 1, !.diag = Append(@, "exec")]

child_after_exec(c, o) ==
  IF o = "ok"
  THEN [c EXCEPT !.st = "running",
                 !.toWrite = ProgWrites(c.argv[1]),
                 !.reads = ProgReads(c.argv[1])]
  ELSE IF o = "segv" THEN [c EXCEPT !.st = "zombie", !.status = 139]
  ELSE child_exec_failed(c)

\* A background child that has just terminated remembers the line the
\* shell was handling at that moment.
terminated_at(c, ln) ==
  IF c.st = "zombie" /\ c.bg THEN [c EXCEPT !.term = ln] ELSE c

\* The child runs from fork to the outcome of execvp.
ChildExec(p) ==
  /\ p \in DOMAIN children
  /\ children[p].st = "forked"
  /\ LET c == children[p]
         r == child_setup(c, files)
         c2 == [c EXCEPT !.fds = r.fds, !.xargs = r.a,
                         !.argv = argv_of(r.a), !.diag = r.diag]
     IN /\ \E o \in exec_outcomes(r.a) :
             children' =
               [children EXCEPT
                  ![p] = terminated_at(child_after_exec(c2, o), lineno)]
        /\ files' = r.files
  /\ UNCHANGED <<pc, why, line, lineno, env, ShellLocals, shfds, pipes>>
  /\ UNCHANGED fails

\* Whether some process still holds the given open file.
held_by_child(c, obj) == Live(c) /\ \E fd \in DOMAIN c.fds : c.fds[fd] = obj

is_open(obj) ==
  \/ \E fd \in DOMAIN shfds : shfds[fd] = obj
  \/ \E q \in DOMAIN children : held_by_child(children[q], obj)

stdin_of(c) == IF 0 \in DOMAIN c.fds THEN c.fds[0] ELSE Tty
stdout_of(c) == IF 1 \in DOMAIN c.fds THEN c.fds[1] ELSE Tty

\* A read on stdin returns end-of-stream: for a pipe, it is empty and no
\* process holds its write end.
at_eof(c) ==
  stdin_of(c).k = "pr" =>
    /\ pipes[stdin_of(c).p].buf = 0
    /\ ~is_open(PipeW(stdin_of(c).p))

may_write(c) == c.st = "running" /\ c.toWrite > 0 /\ (c.reads => at_eof(c))

\* The program writes one unit to its stdout; a full pipe blocks it.
ChildWrite(p) ==
  /\ p \in DOMAIN children
  /\ may_write(children[p])
  /\ LET c == children[p]
         out == stdout_of(c)
     IN IF out.k = "pw"
        THEN /\ is_open(PipeR(out.p))
             /\ pipes[out.p].buf < PipeCap
             /\ pipes' = [pipes EXCEPT ![out.p].buf = @ + 1]
        ELSE UNCHANGED pipes
  /\ children' = [children EXCEPT ![p].toWrite = @ - 1]
  /\ UNCHANGED <<pc, why, line, lineno, env, ShellLocals, shfds, files>>
  /\ UNCHANGED fails

\* A write to a pipe nobody can read kills the writer (SIGPIPE).
ChildSigpipe(p) ==
  /\ p \in DOMAIN children
  /\ may_write(children[p])
  /\ stdout_of(children[p]).k = "pw"
  /\ ~is_open(PipeR(stdout_of(children[p]).p))
  /\ children' =
       [children EXCEPT
          ![p] = terminated_at([@ EXCEPT !.st = "zombie", !.status = 141],
                               lineno)]
  /\ UNCHANGED <<pc, why, line, lineno, env, ShellLocals, shfds, pipes,
                 files>>
  /\ UNCHANGED fails

\* The program reads one unit from the pipe on its stdin.
ChildRead(p) ==
  /\ p \in DOMAIN children
  /\ children[p].st = "running"
  /\ children[p].reads
  /\ stdin_of(children[p]).k = "pr"
  /\ pipes[stdin_of(children[p]).p].buf > 0
  /\ pipes' = [pipes EXCEPT ![stdin_of(children[p]).p].buf = @ - 1]
  /\ UNCHANGED <<pc, why, line, lineno, env, ShellLocals, shfds, children,
                 files>>
  /\ UNCHANGED fails

\* The program has written its output (and read its input to the end, if
\* it reads) and exits.
ChildExit(p) ==
  /\ p \in DOMAIN children
  /\ children[p].st = "running"
  /\ children[p].toWrite = 0
  /\ children[p].reads => at_eof(children[p])
  /\ children' =
       [children EXCEPT
          ![p] = terminated_at([@ EXCEPT !.st = "zombie", !.status = 0],
                               lineno)]
  /\ UNCHANGED <<pc, why, line, lineno, env, ShellLocals, shfds, pipes,
                 files>>
  /\ UNCHANGED fails

\* ---------------------------------------------------------- specification
Next ==
  \/ ReadEOF
  \/ ReadEmpty
  \/ \E l \in Lines : ReadPipeline(l)
  \/ \E l \in Lines : ReadBuiltin(l)
  \/ \E l \in Lines : ReadCommand(l)
  \/ FgWait
  \/ PlStage
  \/ PlWait
  \/ PlLast
  \/ PlLastWait
  \/ \E p \in DOMAIN children : ChildExec(p)
  \/ \E p \in DOMAIN children : ChildWrite(p)
  \/ \E p \in DOMAIN children : ChildSigpipe(p)
  \/ \E p \in DOMAIN children : ChildRead(p)
  \/ \E p \in DOMAIN children : ChildExit(p)

Spec == Init /\ [][Next]_vars

TypeOK ==
  /\ pc \in {"read", "pl_loop", "pl_wait", "pl_last", "pl_last_wait",
             "fg_wait", "terminated"}
  /\ lineno \in 0..MaxLines

\* ================================================================ claims
\* The stages of a line, the children forked by execute_pipeline for the
\* line numbered ln, and the pipes it created.  The claims about what a
\* pipeline launches are stated for lines on which every pipe() and fork()
\* call succeeded.
Stages(l) == strtok(l, {"|"})
NStages == Len(Stages(line))
KidsOf(ln) ==
  {p \in DOMAIN children :
     children[p].line = ln /\ children[p].site # "single"}
PipesOf(ln) == {id \in DOMAIN pipes : pipes[id].line = ln}
NoFailure == fails = {}
PipelineReturned ==
  pc = "read" /\ lineno > 0 /\ has_pipe(line) /\ NoFailure
LineIsBackground == is_background(parse_args(line))
NoRedirection(l) ==
  \A k \in 1..Len(strtok(l, {" ", "|"})) :
    ~is_redir(strtok(l, {" ", "|"})[k])
Reported(c, msg) == \E k \in 1..Len(c.diag) : c.diag[k] = msg
Terminated(c) == c.st \in {"zombie", "reaped"}

\* C1: when execute_pipeline has returned for a line of N >= 1 stages, it
\* has forked exactly N children and exactly one of them for each stage.
C1_OneChildPerStage ==
  (PipelineReturned /\ NStages >= 1) =>
    /\ Cardinality(KidsOf(lineno)) = NStages
    /\ \A k \in 0..(NStages - 1) :
         Cardinality({p \in KidsOf(lineno) : children[p].stage = k}) = 1

\* C2: in a pipeline of two or more stages without redirections, every
\* process past exec that runs stage i > 0 has as stdin the read end of the
\* pipe that is the stdout of a process running stage i-1, and every
\* process running the last stage has the shell's stdout.
C2_StagesChained ==
  (has_pipe(line) /\ NStages >= 2 /\ NoRedirection(line) /\ NoFailure) =>
    \A p \in KidsOf(lineno) :
      children[p].st # "forked" =>
        /\ children[p].stage > 0 =>
             /\ stdin_of(children[p]).k = "pr"
             /\ \E q \in KidsOf(lineno) :
                  /\ children[q].stage = children[p].stage - 1
                  /\ children[q].st # "forked"
                  /\ stdout_of(children[q]) = PipeW(stdin_of(children[p]).p)
        /\ children[p].stage = NStages - 1 =>
             stdout_of(children[p]) = Tty

\* C3: when the shell is back at reading a line after a foreground
\* pipeline, no process forked for that pipeline is still alive.
C3_ForegroundPipelineAwaited ==
  (PipelineReturned /\ ~LineIsBackground) =>
    \A p \in KidsOf(lineno) : ~Live(children[p])

\* A process that will read the pipe id on its stdin: already past exec, or
\* forked with the read end as the descriptor it is about to dup2 onto 0.
ReaderOf(c, id) ==
  \/ c.st = "running" /\ stdin_of(c) = PipeR(id)
  \/ /\ c.st = "forked"
     /\ c.site # "single"
     /\ c.in_fd \in DOMAIN c.fds
     /\ c.fds[c.in_fd] = PipeR(id)

\* C4: whenever a stage of a foreground pipeline is blocked writing to a
\* full pipe, a downstream stage reading that pipe is already running.
C4_BlockedWriterHasReader ==
  \A p \in KidsOf(lineno) :
    ( /\ ~LineIsBackground
      /\ may_write(children[p])
      /\ stdout_of(children[p]).k = "pw"
      /\ pipes[stdout_of(children[p]).p].buf = PipeCap ) =>
    \E q \in DOMAIN children :
      q # p /\ ReaderOf(children[q], stdout_of(children[p]).p)

\* The shell is inside a wait call that has not returned.
ShellBlocked ==
  \/ pc \in {"pl_wait", "pl_last_wait"} /\ Zombies = {} /\ Waitable # {}
  \/ pc = "fg_wait" /\ pid \in DOMAIN children
                    /\ children[pid].st # "zombie"
  \/ pc = "fg_wait" /\ pid = -1 /\ Zombies = {} /\ Waitable # {}

\* C5: while the current line ends in the token "&", the shell is never
\* blocked waiting for a process.
C5_BackgroundNeverWaits ==
  (lineno > 0 /\ LineIsBackground) => ~ShellBlocked

\* C6: whenever the shell is about to read a line, its descriptor table is
\* the one it started with.
C6_NoDescriptorLeak == pc = "read" => shfds = InitFds

\* C7: when execute_pipeline has returned for a line of N >= 1 stages, it
\* has created exactly N-1 pipes.
C7_PipeCount ==
  (PipelineReturned /\ NStages >= 1) =>
    Cardinality(PipesOf(lineno)) = NStages - 1

\* C8: no child is ever at a location of the shell's code, and a child
\* whose exec did not start a program has terminated with a non-zero
\* status, having reported the exec error when execvp returned.
C8_ExecFailureExits ==
  \A p \in DOMAIN children :
    /\ children[p].st \in {"forked", "running", "zombie", "reaped"}
    /\ ( /\ children[p].st # "forked"
         /\ children[p].argv # <<>>
         /\ children[p].argv[1] \notin Executables ) =>
       ( /\ Terminated(children[p])
         /\ children[p].status = 1
         /\ Reported(children[p], "exec") )
    /\ (children[p].st # "forked" /\ children[p].argv = <<>>) =>
       (Terminated(children[p]) /\ children[p].status # 0)

ExecFailedAt(site) ==
  \E p \in DOMAIN children :
    /\ children[p].site = site
    /\ Terminated(children[p])
    /\ children[p].argv = <<<<"nosuch">>>>
    /\ Reported(children[p], "exec")

C8_Witness ==
  ExecFailedAt("stage") /\ ExecFailedAt("last") /\ ExecFailedAt("single")

\* C9: the shell process ends only on an exit request or at the end of its
\* input.
C9_ShellSurvives == pc = "terminated" => why \in {"exit", "eof"}

\* The tokens of a command before handle_redirection, the redirections
\* among them whose file opens, and the files that exist when the
\* redirection at position k is applied.
OutOps == {<<">">>, <<">", ">">>}
mode_of(tok) ==
  IF tok = <<">">> THEN "wr" ELSE IF tok = <<">", ">">> THEN "ap" ELSE "rd"
Tokens0(c) ==
  IF c.site = "stage" THEN strtok(c.text, {" "}) ELSE argv_of(c.args)
path_at(toks, k) == IF k < Len(toks) THEN toks[k + 1] ELSE NULL
ExistingAt(toks, k, fl) ==
  fl \cup {path_at(toks, j) :
             j \in {x \in 1..(k - 1) :
                      /\ toks[x] \in OutOps
                      /\ open_ok(path_at(toks, x), "wr", fl)}}
Opens(toks, k, fl) ==
  open_ok(path_at(toks, k), mode_of(toks[k]), ExistingAt(toks, k, fl))
OutRedirs(toks, fl) ==
  {k \in 1..Len(toks) : toks[k] \in OutOps /\ Opens(toks, k, fl)}
InRedirs(toks, fl) ==
  {k \in 1..Len(toks) : toks[k] = <<"<">> /\ Opens(toks, k, fl)}
Last(S) == CHOOSE x \in S : \A y \in S : y <= x

LastWins(c, d, fl, fl2) ==
  LET toks == Tokens0(c)
      outs == OutRedirs(toks, fl)
      ins == InRedirs(toks, fl)
  IN /\ outs # {} =>
          stdout_of(d) = FileObj(mode_of(toks[Last(outs)]),
                                 path_at(toks, Last(outs)))
     /\ ins # {} =>
          stdin_of(d) = FileObj("rd", path_at(toks, Last(ins)))
     /\ \A k \in outs : path_at(toks, k) \in fl2

\* C10: in the step that takes a child from fork to exec, every
\* redirection of its command is applied (each output file that opens
\* exists afterwards), and stdout and stdin are the file of the last
\* output and the last input redirection whose file opens.
C10_LastRedirectionWins ==
  [][\A p \in DOMAIN children :
       ( /\ children[p].st = "forked"
         /\ p \in DOMAIN children'
         /\ children'[p].st # "forked" ) =>
       LastWins(children[p], children'[p], files, files')]_vars

C10_Witness ==
  \E p \in DOMAIN children :
    /\ children[p].st = "running"
    /\ Cardinality({k \in 1..Len(Tokens0(children[p])) :
                      Tokens0(children[p])[k] \in OutOps}) >= 2
    /\ stdout_of(children[p]) = FileObj("ap", <<"g">>)
    /\ <<"f">> \in files

\* The argument vector of a command as its grammar gives it: every token
\* except each redirection operator and the token that follows it.
RECURSIVE without_redirections(_)
without_redirections(toks) ==
  IF toks = <<>> THEN <<>>
  ELSE IF is_redir(Head(toks))
       THEN without_redirections(SubSeq(toks, 3, Len(toks)))
       ELSE <<Head(toks)>> \o without_redirections(Tail(toks))

\* C11: the argument vector a child passes to execvp is its command's
\* tokens without the redirection operators and their filenames, in order,
\* the tokens after a redirection included.
C11_ArgvKeepsLaterTokens ==
  \A p \in DOMAIN children :
    children[p].st # "forked" =>
      children[p].argv = without_redirections(Tokens0(children[p]))

\* The redirections of a command that name a file which fails to open,
\* and the number of "open" diagnostics a child has written.
FailedOpens(toks, fl) ==
  {k \in 1..Len(toks) :
     /\ is_redir(toks[k])
     /\ path_at(toks, k) # NULL
     /\ ~Opens(toks, k, fl)}
OpenDiagnostics(c) ==
  Cardinality({j \in 1..Len(c.diag) : c.diag[j] = "open"})

\* C12: in the step that takes a child from fork to exec, every
\* redirection whose file fails to open, whatever its direction, has
\* written a diagnostic, and the child has gone on to exec.
C12_OpenFailureReported ==
  [][\A p \in DOMAIN children :
       ( /\ children[p].st = "forked"
         /\ p \in DOMAIN children'
         /\ children'[p].st # "forked" ) =>
       /\ OpenDiagnostics(children'[p]) >=
            Cardinality(FailedOpens(Tokens0(children[p]), files))
       /\ children'[p].xargs # <<>>]_vars

\* A command whose last token is a redirection operator.
TrailingOperator(c) ==
  /\ Tokens0(c) # <<>>
  /\ is_redir(Tokens0(c)[Len(Tokens0(c))])

\* C13: no program is ever running for a command whose last token is a
\* redirection operator without a filename.
C13_TrailingOperatorAbandoned ==
  \A p \in DOMAIN children :
    TrailingOperator(children[p]) => children[p].st # "running"

is_pipe_end(obj) == obj.k \in {"pr", "pw"}

\* C16: a pipeline child that has passed exec (taken here without
\* redirections, so that its stdin and stdout are what the pipeline gave
\* it, and on a line without a failed pipe() or fork()) has no descriptor
\* open on a pipe end other than the ends that are its own stdin and
\* stdout.
C16_OnlyOwnPipeEnds ==
  \A p \in DOMAIN children :
    ( /\ children[p].site # "single"
      /\ children[p].line = lineno
      /\ NoFailure
      /\ children[p].st = "running"
      /\ \A k \in 1..Len(Tokens0(children[p])) :
           ~is_redir(Tokens0(children[p])[k]) ) =>
      \A fd \in DOMAIN children[p].fds :
        is_pipe_end(children[p].fds[fd]) =>
          children[p].fds[fd] \in
            {stdin_of(children[p]), stdout_of(children[p])}

\* C20: the commands array never holds more entries, the terminating NULL
\* included, than its declared number of slots.
C20_CommandsFit == Len(commands) <= CommandsSlots

\* C14: once a pipe() or fork() call has failed on the current line, the
\* shell launches nothing more for that line and waits for nothing: it is
\* back at reading the next line (or has ended).
C14_FailureAbandonsLine ==
  fails # {} => pc \in {"read", "terminated"}

\* C15: a background child that terminated while the shell was at one line
\* has been reaped by the time the shell has read and handled a later
\* line: when the shell is about to read, no terminated background child
\* is left from before the line just handled.
C15_BackgroundReaped ==
  pc = "read" =>
    \A p \in DOMAIN children :
      (children[p].bg /\ children[p].st = "zombie") =>
        children[p].term >= lineno

\* C17: in the step that takes a pipeline child from fork to exec, a '<'
\* of its stage whose file opens leaves stdin on a file, and a '>' or '>>'
\* whose file opens leaves stdout on a file: the redirection, applied
\* after the pipe wiring, is what the program gets, not the pipe.
C17_RedirectionOverPipe ==
  [][\A p \in DOMAIN children :
       ( /\ children[p].site # "single"
         /\ children[p].st = "forked"
         /\ p \in DOMAIN children'
         /\ children'[p].st # "forked" ) =>
       /\ InRedirs(Tokens0(children[p]), files) # {} =>
            stdin_of(children'[p]).k = "rd"
       /\ OutRedirs(Tokens0(children[p]), files) # {} =>
            stdout_of(children'[p]).k \in {"wr", "ap"}]_vars

\* The process that execute_pipeline forked to write into the pipe id: the
\* child of the loop iteration that created the pipe.
WriterOf(q, id) ==
  /\ children[q].site = "stage"
  /\ children[q].line = pipes[id].line
  /\ children[q].stage = pipes[id].stage

\* C18: whenever a pipeline process past exec has a pipe as stdin, the
\* write end of that pipe is open neither in the shell nor in any live
\* process other than the stage that writes into it; the reader itself
\* does not hold it.
C18_WriteEndOnlyInWriter ==
  \A p \in DOMAIN children :
    ( /\ children[p].site # "single"
      /\ children[p].st = "running"
      /\ stdin_of(children[p]).k = "pr" ) =>
      LET w == PipeW(stdin_of(children[p]).p)
      IN /\ \A fd \in DOMAIN shfds : shfds[fd] # w
         /\ ~held_by_child(children[p], w)
         /\ \A q \in DOMAIN children :
              held_by_child(children[q], w) =>
                WriterOf(q, stdin_of(children[p]).p)

\* A reader at end-of-stream on its pipe after the stage that wrote into
\* it has terminated.
C18_Witness ==
  \E p \in DOMAIN children :
    /\ children[p].site # "single"
    /\ children[p].st = "running"
    /\ stdin_of(children[p]).k = "pr"
    /\ at_eof(children[p])
    /\ \E q \in DOMAIN children :
         /\ WriterOf(q, stdin_of(children[p]).p)
         /\ Terminated(children[q])
         /\ children[q].argv = <<<<"ls">>>>

\* C19: when the shell is back at reading after a foreground line without
\* '|', the child it forked for that line is no longer alive: the wait
\* has returned for that child and for no other.
C19_WaitsForOwnChild ==
  (pc = "read" /\ lineno > 0 /\ ~has_pipe(line)) =>
    \A p \in DOMAIN children :
      ( /\ children[p].site = "single"
        /\ children[p].line = lineno
        /\ ~children[p].bg ) => ~Live(children[p])

\* The shell is waiting for its foreground child, which is still alive,
\* while a background child of an earlier line has terminated un-reaped.
C19_Witness ==
  /\ pc = "fg_wait"
  /\ pid \in DOMAIN children
  /\ Live(children[pid])
  /\ \E q \in DOMAIN children :
       /\ children[q].bg
       /\ children[q].line < lineno
       /\ children[q].st = "zombie"

====
